---- MODULE Spec2Model ----
(***************************************************************************)
(* Gaussian beam propagation through thin lenses (lens_system_design.py).  *)
(*                                                                         *)
(* Numbers.  The program computes with IEEE doubles; the model computes    *)
(* with exact rationals <<n, d>>, d > 0, in lowest terms, extended by the  *)
(* three IEEE specials <<1, 0>> (+inf), <<-1, 0>> (-inf) and <<0, 0>>      *)
(* (nan), which numpy produces, without raising, on a division by zero.    *)
(* Rounding is not modelled.                                               *)
(*                                                                         *)
(* Two changes of unit keep every quantity rational:                       *)
(*   - a wavelength is stored in units of pi (lambd = pi * L is stored as  *)
(*     L), so that zR = pi * w0**2 / lambd is the rational w0**2 / L;       *)
(*   - a waist or a beam width w >= 0 is stored as its square, so that     *)
(*     w0 / sqrt(denom) is the rational w0**2 / denom.                      *)
(***************************************************************************)
EXTENDS Integers, Sequences, FiniteSets

VARIABLES
    status,          \* "none" | "built" | "raised": outcome of BeamPropagation.__init__
    argBeam,         \* originalBeamParams as passed to __init__: <<lambd, w0sq, z0>>
    argLenses,       \* lenses as passed to __init__: sequence of columns <<focal, position>>
    lensPositions,   \* self.lensPositions
    lensFocals,      \* self.lensFocals
    z0,              \* self.z0
    w0,              \* self.w0 (squared)
    amountElements,  \* self.amountElements
    amountSections,  \* self.amountSections
    beamsLimits,     \* self.beamsLimits: <<row 0 (lower limits), row 1 (upper limits)>>
    beamParams,      \* self.beamParams: sequence of columns <<lambd, w0sq, z0>>
    beam,            \* a stand-alone BeamSection object, or None
    result           \* what the last call returned

vars == <<status, argBeam, argLenses, lensPositions, lensFocals, z0, w0,
          amountElements, amountSections, beamsLimits, beamParams, beam, result>>

chain == <<status, argBeam, argLenses, lensPositions, lensFocals, z0, w0,
           amountElements, amountSections, beamsLimits, beamParams>>

None == <<>>

-----------------------------------------------------------------------------
(* Extended rational arithmetic *)

Abs(n) == IF n < 0 THEN -n ELSE n

Sign(n) == IF n < 0 THEN -1 ELSE IF n > 0 THEN 1 ELSE 0

RECURSIVE GCD(_, _)
GCD(a, b) == IF b = 0 THEN a ELSE GCD(b, a % b)

Norm(n, d) ==
    IF d = 0 THEN <<Sign(n), 0>>
    ELSE LET g == GCD(Abs(n), Abs(d))
             s == Sign(d)
         IN  <<(s * n) \div g, (s * d) \div g>>

R(n, d) == Norm(n, d)

Zero == <<0, 1>>
One == <<1, 1>>
PosInf == <<1, 0>>
NegInf == <<-1, 0>>
NaN == <<0, 0>>

IsNaN(x) == x = NaN
IsInf(x) == x[2] = 0 /\ x[1] # 0

Neg(x) == <<-x[1], x[2]>>

\* Results are reduced before the factors are multiplied, which keeps every
\* intermediate integer no larger than the reduced result needs.
Add(x, y) ==
    IF IsNaN(x) \/ IsNaN(y) THEN NaN
    ELSE IF IsInf(x) THEN (IF IsInf(y) /\ y # x THEN NaN ELSE x)
    ELSE IF IsInf(y) THEN y
    ELSE LET g == GCD(x[2], y[2])
         IN  Norm(x[1] * (y[2] \div g) + y[1] * (x[2] \div g), (x[2] \div g) * y[2])

Sub(x, y) == Add(x, Neg(y))

\* inf * 0 is nan, inf * x is +-inf
Mul(x, y) ==
    IF x[2] = 0 \/ y[2] = 0 THEN <<Sign(x[1]) * Sign(y[1]), 0>>
    ELSE LET g1 == GCD(Abs(x[1]), y[2])
             g2 == GCD(Abs(y[1]), x[2])
         IN  <<(x[1] \div g1) * (y[1] \div g2), (x[2] \div g2) * (y[2] \div g1)>>

\* 1 / y as numpy divides doubles: 1 / 0 is inf, 1 / inf is 0, no exception
Inv(y) == IF y[1] < 0 THEN <<-y[2], -y[1]>> ELSE <<y[2], y[1]>>

\* x / y: x / 0 is +-inf, 0 / 0 is nan
Div(x, y) == Mul(x, Inv(y))

Sq(x) == Mul(x, x)

\* the least integer >= x, x finite
Ceil(x) == -((-x[1]) \div x[2])

\* IEEE comparisons: false when an operand is nan
Gt(x, y) ==
    /\ ~IsNaN(x)
    /\ ~IsNaN(y)
    /\ IF x[2] = 0 /\ y[2] = 0 THEN x[1] > y[1]
       ELSE IF x[2] = 0 THEN x[1] > 0
       ELSE IF y[2] = 0 THEN y[1] < 0
       ELSE x[1] * y[2] > y[1] * x[2]

Geq(x, y) == ~IsNaN(x) /\ ~IsNaN(y) /\ (x = y \/ Gt(x, y))

Lt(x, y) == Gt(y, x)

Leq(x, y) == Geq(y, x)

-----------------------------------------------------------------------------
(* class BeamSection *)

\* BeamSection.__init__(wavelength, waist, position)
BeamSection(wavelength, waist, position) ==
    [z0 |-> position,
     w0sq |-> waist,
     lambd |-> wavelength,
     zR |-> Div(waist, wavelength)]

\* BeamSection.waist(z), squared: (w0 * sqrt(1 + (z - z0)**2 / zR**2))**2
BeamSection_waist(self, z) ==
    Mul(self.w0sq, Add(One, Div(Sq(Sub(z, self.z0)), Sq(self.zR))))

\* denominator(d_in, f, zR), the denom of transformByLens as a function
denominator(d_in, f, zR) ==
    Add(Sq(Sub(Div(d_in, f), One)), Sq(Div(zR, f)))

\* the new waist placed at d_out instead of z + d_out
transformByLens_NoOffset(self, f, z) ==
    LET d_in == Sub(z, self.z0)
        denom == Add(Sq(Sub(Div(d_in, f), One)), Sq(Div(self.zR, f)))
        d_out == Mul(f, Add(One, Div(Sub(Div(d_in, f), One), denom)))
        new_w0sq == Div(self.w0sq, denom)
    IN  BeamSection(self.lambd, new_w0sq, d_out)

\* BeamSection.transformByLens(f, z): the new section; self is read only
transformByLens(self, f, z) ==
    LET d_in == Sub(z, self.z0)
        denom == Add(Sq(Sub(Div(d_in, f), One)), Sq(Div(self.zR, f)))
        d_out == Mul(f, Add(One, Div(Sub(Div(d_in, f), One), denom)))
        new_z0 == Add(z, d_out)
        new_w0sq == Div(self.w0sq, denom)
    IN  BeamSection(self.lambd, new_w0sq, new_z0)

\* BeamSection.parameters()
parameters(self) == <<self.lambd, self.w0sq, self.z0>>

-----------------------------------------------------------------------------
(* Inputs *)

MaxLenses == 2

Wavelengths == {R(1, 1), R(2, 1)}
Waists == {R(0, 1), R(1, 1)}
WaistPositions == {R(-1, 1), R(0, 1), R(1, 1), R(2, 1)}

\* columns <<focal, position>> of the lenses matrix
LensChoices ==
    {<<R(1, 1), R(1, 2)>>, <<R(1, 1), R(1, 1)>>, <<R(2, 1), R(1, 1)>>,
     <<R(1, 1), R(0, 1)>>, <<R(-1, 1), R(1, 2)>>,
     <<R(1, 1), R(3, 1)>>, <<R(2, 1), R(4, 1)>>}

LensLists == UNION {[1..n -> LensChoices] : n \in 0..MaxLenses}

ZQueries ==
    {R(-2, 1), R(0, 1), R(1, 2), R(1, 1), R(2, 1), R(3, 1), R(4, 1), R(5, 1)}

\* lens lists and (zmin, zmax) arguments of the profile runs; None is Python's None
PlotLensLists ==
    [1..0 -> LensChoices] \cup [1..1 -> LensChoices]
    \cup {<<<<R(1, 1), R(3, 1)>>, <<R(1, 1), R(1, 1)>>>>,
          <<<<R(1, 1), R(1, 1)>>, <<R(2, 1), R(1, 1)>>>>}

PlotRanges ==
    {<<None, None>>, <<R(0, 1), R(3, 1)>>, <<R(-1, 1), None>>, <<R(2, 1), R(0, 1)>>,
     <<R(1, 1), R(1, 1)>>}

-----------------------------------------------------------------------------
(* class BeamPropagation *)

\* the order of the input, unsorted
ArgSorts_Unsorted(distancesList) == {[i \in 1..Len(distancesList) |-> i]}

\* distancesList.argsort(): an index order that sorts the positions ascending.
\* numpy's default sort is not stable, so equal positions may come in any order.
ArgSorts(distancesList) ==
    LET n == Len(distancesList)
    IN  {p \in [1..n -> 1..n] :
            /\ \A i, j \in 1..n : i # j => p[i] # p[j]
            /\ \A i \in 1..n : i < n => Leq(distancesList[p[i]], distancesList[p[i + 1]])}

\* lensPositions.all(): no element is zero; as a number, True is 1 and False is 0
AllNonZero(a) == IF \A i \in 1..Len(a) : a[i] # Zero THEN One ELSE Zero

\* the test of line 128
WaistCheckFails(pz0, positions) == Gt(pz0, AllNonZero(positions))

\* the last upper limit left at the 0 of sp.zeros
MakeBeamsLimits_NoInf(positions, sections) ==
    <<[i \in 1..sections |-> IF i = 1 THEN NegInf ELSE positions[i - 1]],
      [i \in 1..sections |-> IF i = sections THEN Zero ELSE positions[i]]>>

\* lines 119-123
MakeBeamsLimits(positions, sections) ==
    <<[i \in 1..sections |-> IF i = 1 THEN NegInf ELSE positions[i - 1]],
      [i \in 1..sections |-> IF i = sections THEN PosInf ELSE positions[i]]>>

\* the loop of lines 135-140: ii counts the lenses already applied
RECURSIVE TransformLoop(_, _, _, _, _)
TransformLoop(params, parms, ii, focals, positions) ==
    IF ii >= Len(positions) THEN params
    ELSE LET oldBeam == BeamSection(parms[1], parms[2], parms[3])
             newBeam == transformByLens(oldBeam, focals[ii + 1], positions[ii + 1])
         IN  TransformLoop(Append(params, parameters(newBeam)), parameters(newBeam),
                           ii + 1, focals, positions)

\* BeamPropagation.__init__(originalBeamParams, lenses)
Construct(originalBeamParams, lenses) ==
    /\ status = "none"
    /\ beam = None
    /\ \E order \in ArgSorts([i \in 1..Len(lenses) |-> lenses[i][2]]) :
        LET positions == [i \in 1..Len(lenses) |-> lenses[order[i]][2]]
            focals == [i \in 1..Len(lenses) |-> lenses[order[i]][1]]
            sections == Len(lenses) + 1
        IN  /\ argBeam' = originalBeamParams
            /\ argLenses' = lenses
            /\ lensPositions' = positions
            /\ lensFocals' = focals
            /\ z0' = originalBeamParams[3]
            /\ w0' = originalBeamParams[2]
            /\ amountElements' = Len(positions)
            /\ amountSections' = sections
            /\ beamsLimits' = MakeBeamsLimits(positions, sections)
            /\ IF WaistCheckFails(originalBeamParams[3], positions)
               THEN /\ status' = "raised"
                    /\ beamParams' = None
               ELSE /\ status' = "built"
                    /\ beamParams' = TransformLoop(<<originalBeamParams>>,
                                                   originalBeamParams, 0, focals, positions)
    /\ UNCHANGED <<beam, result>>

\* every section with a column sum of at least 1
SectionIndex_AtLeastOne(z, limits, sections) ==
    {i \in 1..sections :
        (IF Geq(z, limits[1][i]) THEN 1 ELSE 0) + (IF Geq(z, limits[2][i]) THEN 1 ELSE 0) >= 1}

\* line 153: the sections whose column of (z >= beamsLimits) sums to 1
SectionIndex(z, limits, sections) ==
    {i \in 1..sections :
        (IF Geq(z, limits[1][i]) THEN 1 ELSE 0) + (IF Geq(z, limits[2][i]) THEN 1 ELSE 0) = 1}

\* a set of indices as the ascending array numpy's boolean mask gives
RECURSIVE Ascending(_)
Ascending(S) ==
    IF S = {} THEN <<>>
    ELSE LET m == CHOOSE x \in S : \A y \in S : x <= y
         IN  <<m>> \o Ascending(S \ {m})

\* BeamPropagation.waist(z): one width per selected section
BeamPropagation_waist(z) ==
    LET index == Ascending(SectionIndex(z, beamsLimits, amountSections))
    IN  [op |-> "waist", z |-> z, index |-> index,
         value |-> [k \in 1..Len(index) |->
                       BeamSection_waist(BeamSection(beamParams[index[k]][1],
                                                     beamParams[index[k]][2],
                                                     beamParams[index[k]][3]), z)]]

Waist(z) ==
    /\ status = "built"
    /\ result' = BeamPropagation_waist(z)
    /\ UNCHANGED <<chain, beam>>

\* numpy.arange(start, stop, step), exactly: ceil((stop - start) / step) elements
arange(start, stop, step) ==
    LET n == Ceil(Div(Sub(stop, start), step))
    IN  [k \in 1..(IF n < 0 THEN 0 ELSE n) |-> Add(start, Mul(<<k - 1, 1>>, step))]

NUMBER_OF_STEPS == 300

\* localIndices of line 218 for section ii
LocalIndices(z, limits, ii) ==
    {k \in 1..Len(z) : Gt(z[k], limits[1][ii]) /\ Leq(z[k], limits[2][ii])}

\* the loop of lines 217-221: ii counts the sections already drawn
RECURSIVE PlotLoop(_, _, _)
PlotLoop(beamWidth, z, ii) ==
    IF ii >= amountSections THEN beamWidth
    ELSE LET localIndices == LocalIndices(z, beamsLimits, ii + 1)
             section == BeamSection(beamParams[ii + 1][1], beamParams[ii + 1][2],
                                    beamParams[ii + 1][3])
         IN  PlotLoop([k \in 1..Len(z) |->
                          IF k \in localIndices THEN BeamSection_waist(section, z[k])
                          ELSE beamWidth[k]],
                      z, ii + 1)

\* BeamPropagation.plotFull(zmin, zmax): the arrays z and beamWidth handed to plt.plot.
\* lensPositions[-1] of an empty array and arange with a zero step raise.
BeamPropagation_plotFull(zmin, zmax) ==
    LET default == zmin = None \/ zmax = None
    IN  IF default /\ amountElements = 0
        THEN [op |-> "plotFull", raised |-> TRUE]
        ELSE LET lo == IF default THEN z0 ELSE zmin
                 hi == IF default
                       THEN Add(lensPositions[amountElements], lensFocals[amountElements])
                       ELSE zmax
                 step == Div(Sub(hi, lo), <<NUMBER_OF_STEPS, 1>>)
             IN  IF step = Zero
                 THEN [op |-> "plotFull", raised |-> TRUE]
                 ELSE LET z == arange(lo, hi, step)
                      IN  [op |-> "plotFull", raised |-> FALSE, zmin |-> lo, zmax |-> hi,
                           z |-> z,
                           beamWidth |-> PlotLoop([k \in 1..Len(z) |-> Zero], z, 0)]

PlotFull(zmin, zmax) ==
    /\ status = "built"
    /\ result' = BeamPropagation_plotFull(zmin, zmax)
    /\ UNCHANGED <<chain, beam>>

\* b = BeamSection(wavelength, waist, position)
NewBeam(wavelength, waist, position) ==
    /\ status = "none"
    /\ beam = None
    /\ beam' = BeamSection(wavelength, waist, position)
    /\ UNCHANGED <<chain, result>>

\* b.transformByLens(f, z): nothing of b is assigned
SectionTransform(f, z) ==
    /\ beam # None
    /\ result' = [op |-> "transformByLens", self |-> beam, f |-> f, z |-> z,
                  ret |-> transformByLens(beam, f, z)]
    /\ UNCHANGED <<chain, beam>>

-----------------------------------------------------------------------------

Init ==
    /\ status = "none"
    /\ argBeam = None
    /\ argLenses = <<>>
    /\ lensPositions = <<>>
    /\ lensFocals = <<>>
    /\ z0 = None
    /\ w0 = None
    /\ amountElements = 0
    /\ amountSections = 0
    /\ beamsLimits = None
    /\ beamParams = None
    /\ beam = None
    /\ result = [op |-> "none"]

Next ==
    \/ \E wl \in Wavelengths, w \in Waists, p \in WaistPositions, ls \in LensLists :
           Construct(<<wl, w, p>>, ls)
    \/ \E z \in ZQueries : Waist(z)
    \/ \E wl \in Wavelengths, w \in Waists, p \in WaistPositions : NewBeam(wl, w, p)
    \/ \E l \in LensChoices : SectionTransform(l[1], l[2])

Spec == Init /\ [][Next]_vars

\* the profile runs: construction, then plotFull
NextPlot ==
    \/ \E wl \in Wavelengths, w \in Waists, p \in WaistPositions, ls \in PlotLensLists :
           Construct(<<wl, w, p>>, ls)
    \/ \E rg \in PlotRanges : PlotFull(rg[1], rg[2])

SpecPlot == Init /\ [][NextPlot]_vars

-----------------------------------------------------------------------------
(* Properties *)

N == Len(argLenses)

ArgPositions == [i \in 1..N |-> argLenses[i][2]]

DistinctPositions == \A i, j \in 1..N : i # j => ArgPositions[i] # ArgPositions[j]

\* the i-th smallest of the positions passed in (i from 1), counted with repetitions
SortedPosition(i) ==
    CHOOSE p \in {ArgPositions[j] : j \in 1..N} :
        /\ Cardinality({j \in 1..N : Lt(ArgPositions[j], p)}) < i
        /\ i <= Cardinality({j \in 1..N : Leq(ArgPositions[j], p)})

\* the lens passed in that stands at the i-th smallest position
SortedLens(i) == CHOOSE l \in {argLenses[j] : j \in 1..N} : l[2] = SortedPosition(i)

Segment(i) == BeamSection(beamParams[i][1], beamParams[i][2], beamParams[i][3])

InputNotSorted == \E i, j \in 1..N : i < j /\ Gt(ArgPositions[i], ArgPositions[j])

\* C1: for lenses at pairwise-distinct positions given in any order, a built chain
\* stores them ascending by position, each focal length with its own position, and
\* segment i+1 is transformByLens of segment i by the i-th lens of the sorted order.
C1_SortedChain ==
    (status = "built" /\ DistinctPositions) =>
        /\ Len(lensPositions) = N
        /\ Len(lensFocals) = N
        /\ Len(beamParams) = N + 1
        /\ \A i \in 1..N :
            /\ i < N => Lt(lensPositions[i], lensPositions[i + 1])
            /\ <<lensFocals[i], lensPositions[i]>> = SortedLens(i)
            /\ beamParams[i + 1] =
                   parameters(transformByLens(Segment(i), SortedLens(i)[1], SortedLens(i)[2]))

C1_Witness ==
    /\ status = "built"
    /\ DistinctPositions
    /\ N = 2
    /\ InputNotSorted
    /\ argLenses[1][1] # argLenses[2][1]
    /\ argBeam[2] # Zero

\* C2 (as claimed): a construction, from a beam of positive waist, whose initial waist
\* position is not strictly less than every lens position raises and gives no chain.
C2_RejectsWaistNotUpstream ==
    (/\ status # "none"
     /\ Gt(argBeam[2], Zero)
     /\ \E i \in 1..N : ~Lt(argBeam[3], ArgPositions[i])) =>
        status = "raised"

\* C3: a built chain of N lenses has N+1 segments and N+1 intervals; segment 0 is the
\* beam passed in; interval 0 is (-inf, smallest position), interval i is
\* (sortedPosition[i-1], sortedPosition[i]), the last interval ends at +inf.
C3_Shape ==
    status = "built" =>
        /\ amountSections = N + 1
        /\ Len(beamParams) = N + 1
        /\ Len(beamsLimits[1]) = N + 1
        /\ Len(beamsLimits[2]) = N + 1
        /\ beamParams[1] = argBeam
        /\ beamsLimits[1][1] = NegInf
        /\ beamsLimits[2][N + 1] = PosInf
        /\ \A i \in 1..N :
            /\ beamsLimits[2][i] = SortedPosition(i)
            /\ beamsLimits[1][i + 1] = SortedPosition(i)

C3_Witness ==
    /\ status = "built"
    /\ N = 2
    /\ InputNotSorted
    /\ beamsLimits[2][1] = R(1, 2)
    /\ beamsLimits[1][3] = R(3, 1)

\* C4 (as claimed): in a chain built from a beam of positive waist and lenses at
\* distinct positions, waist(z) selects the section with lower < z <= upper
\* (z <= upper for the first section), so at a lens position the section before
\* that lens.
C4_UpperInclusive ==
    (result.op = "waist" /\ Gt(argBeam[2], Zero) /\ DistinctPositions) =>
        /\ Len(result.index) = 1
        /\ \A k \in 1..Len(result.index) :
            LET i == result.index[k]
            IN  /\ i = 1 \/ Lt(beamsLimits[1][i], result.z)
                /\ Leq(result.z, beamsLimits[2][i])

\* C5: for a built chain and a finite z, the selection of waist(z) matches exactly
\* one section index.
C5_UniqueSection ==
    result.op = "waist" => Len(result.index) = 1

C5_Witness ==
    /\ result.op = "waist"
    /\ amountElements = 2
    /\ \E i \in 1..amountElements : lensPositions[i] = result.z
    /\ Len(result.index) = 1

\* the sections plotFull draws the sample z from
PlotSections(z) ==
    {ii \in 1..amountSections : Gt(z, beamsLimits[1][ii]) /\ Leq(z, beamsLimits[2][ii])}

\* C6 (as claimed): in a chain built from a beam of positive waist and lenses at
\* distinct positions, over zmin < zmax the profile has NUMBER_OF_STEPS samples, evenly
\* spaced from zmin and strictly increasing, each drawn from the section waist(z)
\* selects and with the width waist(z) returns.
C6_ProfileMatchesWaist ==
    (/\ result.op = "plotFull"
     /\ ~result.raised
     /\ Lt(result.zmin, result.zmax)
     /\ Gt(argBeam[2], Zero)
     /\ DistinctPositions) =>
        /\ Len(result.z) = NUMBER_OF_STEPS
        /\ Len(result.beamWidth) = NUMBER_OF_STEPS
        /\ result.z[1] = result.zmin
        /\ \A k \in 1..(Len(result.z) - 1) :
            /\ Lt(result.z[k], result.z[k + 1])
            /\ Sub(result.z[k + 1], result.z[k]) = Sub(result.z[2], result.z[1])
        /\ \A k \in 1..Len(result.z) :
            /\ PlotSections(result.z[k]) =
                   SectionIndex(result.z[k], beamsLimits, amountSections)
            /\ <<result.beamWidth[k]>> = BeamPropagation_waist(result.z[k]).value

\* C7: for a beam of positive waist at the front focal plane of the lens
\* (z - z0 = f), transformByLens returns waist position z + f, waist
\* f * lambd / (pi * w0) (squared: f**2 * L**2 / w0**2), the same wavelength, and
\* leaves the receiver as it was.
C7_FrontFocalPlane ==
    (/\ result.op = "transformByLens"
     /\ Gt(result.self.w0sq, Zero)
     /\ Sub(result.z, result.self.z0) = result.f) =>
        /\ result.ret.z0 = Add(result.z, result.f)
        /\ result.ret.w0sq = Div(Mul(Sq(result.f), Sq(result.self.lambd)), result.self.w0sq)
        /\ result.ret.lambd = result.self.lambd
        /\ beam = result.self

C7_Witness ==
    /\ result.op = "transformByLens"
    /\ Gt(result.self.w0sq, Zero)
    /\ Sub(result.z, result.self.z0) = result.f
    /\ result.f = R(2, 1)
    /\ result.self.lambd = R(2, 1)
    /\ result.ret.w0sq = R(16, 1)

\* denom of the transform of segment i by lens i of a built chain
SegmentDenom(i) ==
    denominator(Sub(lensPositions[i], Segment(i).z0), lensFocals[i], Segment(i).zR)

\* C8 (as claimed): a construction in which the transform of some lens has denom = 0
\* raises; no chain is built.
C8_SingularFails ==
    ~(status = "built" /\ \E i \in 1..amountElements : SegmentDenom(i) = Zero)

\* C9 (as claimed): a construction from a beam of positive waist and lenses two of
\* which share a position raises.
C9_RejectsDuplicates ==
    (status # "none" /\ Gt(argBeam[2], Zero) /\ ~DistinctPositions) => status = "raised"

\* C10 (as claimed): a construction with at least one lens, the waist position strictly less than every
\* lens position, distinct positions, positive waist and wavelength and non-zero
\* focals raises nothing and builds all N+1 segments.
C10_AcceptsValid ==
    (/\ status # "none"
     /\ N >= 1
     /\ \A i \in 1..N : Lt(argBeam[3], ArgPositions[i])
     /\ DistinctPositions
     /\ Gt(argBeam[1], Zero)
     /\ Gt(argBeam[2], Zero)
     /\ \A i \in 1..N : argLenses[i][1] # Zero) =>
        (status = "built" /\ Len(beamParams) = N + 1)

====
